---- MODULE Spec2Model ----
(***************************************************************************)
(* A model of playlist.py: the Show registry (ShowList), its Filters and   *)
(* Groups, the token filtering algorithm, random sampling of episodes and  *)
(* the M3U serializer.                                                     *)
(*                                                                         *)
(* Strings are sequences of one-character strings, so that prefix          *)
(* matching, splitting and joining are computed and not assumed.  Match    *)
(* keys are literal strings (no regular-expression metacharacters), so     *)
(* re.match with pattern p is "the subject starts with p".                 *)
(***************************************************************************)
EXTENDS Integers, Sequences, FiniteSets, TLC

VARIABLES
    objs,     \* the Show objects ever constructed, in allocation order
    shows,    \* ShowList.shows: name -> index of a Show object in objs
    filters,  \* ShowList.filters: match key -> Filter or Group
    order,    \* iteration order of the dict ShowList.filters (a seq of keys)
    disk,     \* the file system: show name -> media files under its path
    last      \* the traced call: its arguments, what it ran and returned

vars == <<objs, shows, filters, order, disk, last>>

(***************************************************************************)
(* Bounds of the model.                                                    *)
(***************************************************************************)
MaxShowObjs == 2   \* Show objects constructed in one run
MaxKeys     == 2   \* match keys held by the registry at once
MaxEpisodes == 2   \* media files under one show's directory
MaxTokens   == 2   \* tokens in a filter-string given to filter()
MaxScans    == 2   \* directory scans counted per Show object
MaxCount    == 3   \* largest count given to random_episodes()
MaxDepth    == 4   \* nested filter() calls before the interpreter gives up
MaxLen      == 4   \* characters in a token matched against a key
MaxPaths    == 2   \* episode paths given to playlist_contents()
MaxPathLen  == 3   \* characters in one episode path
MaxEntries  == 2   \* entries of the directory given to the Scanner
MaxNested   == 1   \* entries of a directory below it
MaxTreeDepth == 2  \* directories nested below the scanned directory

(***************************************************************************)
(* Strings.                                                                *)
(***************************************************************************)
sEmpty  == << >>
sDash   == <<"-">>
sSpace  == <<" ">>
sAll    == <<"a", "l", "l">>
sA      == <<"a">>
sFF     == <<"f", "f">>
sF      == <<"f">>
sX      == <<"x">>

StartsWith(s, p) ==
    /\ Len(p) <= Len(s)
    /\ SubSeq(s, 1, Len(p)) = p

\* str.split(sep) for a one-character separator: always at least one piece
RECURSIVE SplitFrom(_, _, _, _)
SplitFrom(s, sep, i, cur) ==
    IF i > Len(s) THEN <<cur>>
    ELSE IF s[i] = sep THEN <<cur>> \o SplitFrom(s, sep, i + 1, << >>)
    ELSE SplitFrom(s, sep, i + 1, Append(cur, s[i]))

Split(s, sep) == SplitFrom(s, sep, 1, << >>)

\* sep.join(pieces)
RECURSIVE Join(_, _)
Join(pieces, sep) ==
    IF Len(pieces) = 0 THEN << >>
    ELSE IF Len(pieces) = 1 THEN pieces[1]
    ELSE pieces[1] \o sep \o Join(Tail(pieces), sep)

SeqsUpTo(S, n) == UNION {[1..k -> S] : k \in 0..n}

Range(f) == {f[x] : x \in DOMAIN f}

(***************************************************************************)
(* Inputs.                                                                 *)
(***************************************************************************)
None == <<"None">>                   \* Python's None (add_show's default abbrev)
Names == {"A", "B"}                  \* show names
Keys == {sEmpty, sA, sFF}            \* match keys given to the registry
Tokens == {sAll, sDash \o sAll, sA, sFF, sDash \o sFF, sEmpty, sX}
FilterStrings == {Join(ts, sSpace) : ts \in SeqsUpTo(Tokens, MaxTokens)}
GroupStrings == {Join(<<sDash \o sAll, sA>>, sSpace), sFF, sDash \o sAll}
Counts == 0..MaxCount
SampleKeys == {sA, sFF}              \* match keys of the sampling runs
SampleStrings == {sAll, sDash \o sAll, sA, sDash \o sA, sFF, sDash \o sFF}
MatchKeys == {sEmpty, sF, sFF, sDash \o sF}
MatchTokens == SeqsUpTo({"-", "f", "x"}, MaxLen)
Paths == SeqsUpTo({"/", "e"}, MaxPathLen)

\* names of directory entries: the six extensions bare, one after another
\* character, two that end otherwise, and two holding a newline
FileNames ==
    {<<"a", "v", "i">>, <<"m", "p", "g">>, <<"m", "p", "e", "g">>,
     <<"m", "p", "4">>, <<"m", "k", "v">>, <<"v", "o", "b">>,
     <<"x", "a", "v", "i">>, <<"a", "v", "i", "x">>, <<"t", "x", "t">>,
     <<"\n", "a", "v", "i">>, <<"a", "v", "i", "\n">>}
DirNames == {<<"a", "v", "i">>}
ScanRoot == <<"r">>                  \* the path given to the Scanner

\* an entry of a directory: a regular file, a directory with its entries, or
\* something else (a fifo, a dangling link)
Node(name, kind, kids) == [name |-> name, kind |-> kind, kids |-> kids]

\* the listings of at most w of the nodes ns, no name twice
Listings(ns, w) ==
    {l \in SeqsUpTo(ns, w) : \A i, j \in DOMAIN l : l[i].name = l[j].name => i = j}

\* the nodes a directory can hold with at most d directories nested in them
RECURSIVE Nodes(_)
Nodes(d) ==
    {Node(n, k, << >>) : n \in FileNames, k \in {"file"}}
        \cup {Node(<<"t", "x", "t">>, "other", << >>), Node(<<"v", "o", "b">>, "other", << >>)}
        \cup (IF d = 0 THEN {}
              ELSE {Node(n, "dir", l) : n \in DirNames, l \in Listings(Nodes(d - 1), MaxNested)})

\* the contents of the directory given to the Scanner
Trees == Listings(Nodes(MaxTreeDepth), MaxEntries)

\* the media files a scan of show n's directory finds when it holds k files
Files(n, k) == [i \in 1..k |-> <<n, i>>]

Disks == {[n \in Names |-> Files(n, k[n])] : k \in [Names -> 0..MaxEpisodes]}

(***************************************************************************)
(* is_enabled_filter, Filter, Group, Show.                                 *)
(***************************************************************************)
\* the IndexError branch returning True
is_enabled_filter_EmptyEnables(filter_string) ==
    IF Len(filter_string) = 0 THEN TRUE ELSE filter_string[1] # "-"

is_enabled_filter(filter_string) ==
    IF Len(filter_string) = 0
    THEN FALSE                         \* IndexError: return False
    ELSE filter_string[1] # "-"

\* the pattern without its optional "-": r"^all$"
all_pseudo_filter_NoDash(token) == token = sAll

\* re.compile(r"^-?all$").match(token)
all_pseudo_filter(token) == token = sAll \/ token = sDash \o sAll

\* the literal lit stands in s at position i
LiteralAt(s, i, lit) ==
    /\ i + Len(lit) - 1 <= Len(s)
    /\ \A j \in 1..Len(lit) : s[i + j - 1] = lit[j]

\* Filter.__init__: regex r"^-?" + match, and the shows it toggles
NewFilter(match, fshows) == [kind |-> "Filter", key |-> match, shows |-> fshows]

\* Group.__init__: regex match, and the filter-string it replays
NewGroup(match, filter_string) ==
    [kind |-> "Group", key |-> match, filter_string |-> filter_string]

\* the pattern without its optional "-": r"^" + match
FilterMatch_NoDash(f, against) == LiteralAt(against, 1, f.key)

\* Filter.match: "-?" takes a leading "-" if the key follows it, else nothing
FilterMatch(f, against) ==
    \/ Len(against) > 0 /\ against[1] = "-" /\ LiteralAt(against, 2, f.key)
    \/ LiteralAt(against, 1, f.key)

\* a Group compiled like a Filter, with the optional "-" before its key
GroupMatch_Dash(g, against) ==
    \/ Len(against) > 0 /\ against[1] = "-" /\ LiteralAt(against, 2, g.key)
    \/ LiteralAt(against, 1, g.key)

\* Group.match: the key as it is
GroupMatch(g, against) == LiteralAt(against, 1, g.key)

\* filter.match(token), dispatched on the entry's class
Match(entry, against) ==
    IF entry.kind = "Filter" THEN FilterMatch(entry, against)
    ELSE GroupMatch(entry, against)

\* Show.__init__ (scans counts the directory scans made for this object)
NewShow(name) == [name |-> name, eplist |-> << >>, enabled |-> FALSE, scans |-> 0]

ExtTokens ==
    {<<"a", "v", "i">>, <<"m", "p", "g">>, <<"m", "p", "e", "g">>,
     <<"m", "p", "4">>, <<"m", "k", "v">>, <<"v", "o", "b">>}

\* a pattern that wants a "." before the extension
ext_match_Dotted(node) ==
    \E tok \in ExtTokens :
        /\ Len(node) > Len(tok)
        /\ LiteralAt(node, Len(node) - Len(tok) + 1, tok)
        /\ node[Len(node) - Len(tok)] = "."

\* re.compile(r".*(avi|mpg|mpeg|mp4|mkv|vob)$").match(node): "." takes any
\* character but a newline, "$" stands at the end or before a final newline
ext_match(node) ==
    \E tok \in ExtTokens, end \in {Len(node) - 1, Len(node)} :
        /\ end = Len(node) \/ node[Len(node)] = "\n"
        /\ end >= Len(tok)
        /\ \A j \in 1..Len(tok) : node[end - Len(tok) + j] = tok[j]
        /\ \A i \in 1..(end - Len(tok)) : node[i] # "\n"

\* os.path.join(path, node)
PathJoin(path, name) == path \o <<"/">> \o name

\* Show.__episodes_for_path(path), entries being what os.listdir(path) lists
RECURSIVE episodes_for_path(_, _)
RECURSIVE ScanFrom(_, _, _)
ScanFrom(path, entries, i) ==
    IF i > Len(entries) THEN << >>
    ELSE LET node == PathJoin(path, entries[i].name)
             found == IF entries[i].kind = "file"
                      THEN (IF ext_match(node) THEN <<node>> ELSE << >>)
                      ELSE IF entries[i].kind = "dir"
                      THEN SelectSeq(episodes_for_path(node, entries[i].kids), ext_match)
                      ELSE << >>
         IN found \o ScanFrom(path, entries, i + 1)

episodes_for_path(path, entries) == ScanFrom(path, entries, 1)

\* Show.__episodes_for_path(self.path): what the directory holds
EpisodesForPath(o) == disk[o.name]

\* Show.episodes: the Show object after the call (the call returns its eplist)
ShowEpisodes(o) ==
    IF o.eplist = << >>
    THEN [o EXCEPT !.eplist = EpisodesForPath(o), !.scans = @ + 1]
    ELSE o

(***************************************************************************)
(* The M3U serializer.                                                     *)
(***************************************************************************)
sEXTM3U == <<"#", "E", "X", "T", "M", "3", "U">>
sEXTINFO == <<"#", "E", "X", "T", "I", "N", "F", "O", ":", "0", ",">>
sNewline == <<"\n">>

\* seq[-1]
LastOf(seq) == seq[Len(seq)]

\* an entry titled by the first component of the path
playlist_entry_First(episode) ==
    sEXTINFO \o Split(episode, "/")[1] \o sNewline \o episode

playlist_entry(episode) ==
    sEXTINFO \o LastOf(Split(episode, "/")) \o sNewline \o episode

playlist_contents(episodes) ==
    (sEXTM3U \o sNewline)
        \o Join([i \in 1..Len(episodes) |-> playlist_entry(episodes[i])], sNewline)

(***************************************************************************)
(* ShowList.filter.  A call is evaluated on a record st of the Show        *)
(* objects, the log of the entries run, and the error raised (if any).     *)
(***************************************************************************)
\* a loop without the break: the last entry whose match succeeds has the
\* last word
FirstMatch_Last(token) ==
    LET hits == {i \in 1..Len(order) : Match(filters[order[i]], token)}
    IN IF hits = {} THEN 0 ELSE CHOOSE i \in hits : \A j \in hits : i >= j

\* position in order of the first entry whose match succeeds, 0 when none
FirstMatch(token) ==
    LET hits == {i \in 1..Len(order) : Match(filters[order[i]], token)}
    IN IF hits = {} THEN 0 ELSE CHOOSE i \in hits : \A j \in hits : i <= j

\* a run that also gives every other Show the opposite flag
FilterRun_Exclusive(f, os, enable) ==
    [j \in DOMAIN os |->
        [os[j] EXCEPT !.enabled = IF j \in f.shows THEN enable ELSE ~enable]]

\* Filter.run(enable)
FilterRun(f, os, enable) ==
    [j \in DOMAIN os |->
        IF j \in f.shows THEN [os[j] EXCEPT !.enabled = enable] ELSE os[j]]

\* for show in self.shows.values(): show.enabled = enable_or_disable
SetAll(os, enable) ==
    [j \in DOMAIN os |->
        IF j \in Range(shows) THEN [os[j] EXCEPT !.enabled = enable] ELSE os[j]]

RECURSIVE ShowListFilter(_, _, _)
RECURSIVE FilterLoop(_, _, _, _)
RECURSIVE ApplyToken(_, _, _, _)

\* a Group that replays its filter-string only for an enabling token
GroupRun_Polar(g, st, enable, depth) ==
    IF enable THEN ShowListFilter(st, g.filter_string, depth + 1) ELSE st

\* a Group that stops re-entering in a nested call
GroupRun_Guarded(g, st, enable, depth) ==
    IF depth >= 2 THEN st ELSE ShowListFilter(st, g.filter_string, depth + 1)

\* Group.run(_): self.showlist.filter(self.filter_string)
GroupRun(g, st, enable, depth) == ShowListFilter(st, g.filter_string, depth + 1)

\* filter.run(enable_or_disable), dispatched on the entry's class
Run(entry, st, enable, depth) ==
    IF entry.kind = "Filter"
    THEN [st EXCEPT !.objs = FilterRun(entry, st.objs, enable)]
    ELSE GroupRun(entry, st, enable, depth)

\* what the log keeps of an entry run for a token
Event(token, pos, depth, entry, enable) ==
    [depth |-> depth, pos |-> pos, token |-> token, entry |-> entry,
     enable |-> enable]

\* a loop that raises for a token no entry matches
ApplyToken_Strict(st, token, pos, depth) ==
    LET enable_or_disable == is_enabled_filter(token)
    IN IF all_pseudo_filter(token)
       THEN [st EXCEPT !.objs = SetAll(st.objs, enable_or_disable)]
       ELSE LET m == FirstMatch(token)
            IN IF m = 0 THEN [st EXCEPT !.err = "KeyError"]
               ELSE Run(filters[order[m]],
                        [st EXCEPT !.log = Append(@,
                            Event(token, pos, depth, filters[order[m]],
                                  enable_or_disable))],
                        enable_or_disable, depth)

\* one iteration of the loop over the tokens
ApplyToken(st, token, pos, depth) ==
    LET enable_or_disable == is_enabled_filter(token)
    IN IF all_pseudo_filter(token)
       THEN [st EXCEPT !.objs = SetAll(st.objs, enable_or_disable)]
       ELSE LET m == FirstMatch(token)
            IN IF m = 0 THEN st
               ELSE Run(filters[order[m]],
                        [st EXCEPT !.log = Append(@,
                            Event(token, pos, depth, filters[order[m]],
                                  enable_or_disable))],
                        enable_or_disable, depth)

\* a loop that takes the tokens from the right
RECURSIVE FilterLoop_Reversed(_, _, _, _)
FilterLoop_Reversed(st, toks, i, depth) ==
    IF st.err # "ok" \/ i > Len(toks) THEN st
    ELSE FilterLoop_Reversed(ApplyToken(st, toks[Len(toks) + 1 - i], i, depth),
                             toks, i + 1, depth)

FilterLoop(st, toks, i, depth) ==
    IF st.err # "ok" \/ i > Len(toks) THEN st
    ELSE FilterLoop(ApplyToken(st, toks[i], i, depth), toks, i + 1, depth)

\* a filter() that refuses a second nested call
ShowListFilter_Shallow(st, filter_string, depth) ==
    IF depth > 2
    THEN [st EXCEPT !.err = "RuntimeError"]
    ELSE FilterLoop(st, Split(filter_string, " "), 1, depth)

\* the interpreter's recursion limit ends a call nested deeper than MaxDepth
ShowListFilter(st, filter_string, depth) ==
    IF depth > MaxDepth
    THEN [st EXCEPT !.err = "RuntimeError"]
    ELSE FilterLoop(st, Split(filter_string, " "), 1, depth)

\* a top-level call of filter() on the registry holding the Show objects os
FilterResult(os, filter_string) ==
    ShowListFilter([objs |-> os, log |-> << >>, err |-> "ok"], filter_string, 1)

(***************************************************************************)
(* The registry's operations.  A call is either traced (last keeps its     *)
(* arguments and what it did, and the observed run ends with it) or not.   *)
(***************************************************************************)
NoCall == [op |-> "none"]

Untraced == last = NoCall

Trace(traced, call) == IF traced THEN call ELSE NoCall

\* the orders a dict can iterate in once key k is stored: a key already
\* present keeps its slot, a new key lands in any slot
Inserted(k) ==
    IF k \in DOMAIN filters THEN {order}
    ELSE {SubSeq(order, 1, i) \o <<k>> \o SubSeq(order, i + 1, Len(order)) :
            i \in 0..Len(order)}

\* room for key k in the registry
Room(k) == Cardinality(DOMAIN filters \cup {k}) <= MaxKeys

\* a registry that keeps the first entry stored under a key
Store_FirstWins(match, entry) ==
    IF match \in DOMAIN filters
    THEN UNCHANGED <<filters, order>>
    ELSE /\ filters' = (match :> entry) @@ filters
         /\ order' \in Inserted(match)

\* self.filters[match] = entry
Store(match, entry) ==
    /\ filters' = (match :> entry) @@ filters
    /\ order' \in Inserted(match)

InitRegistry ==
    /\ objs = << >>
    /\ shows = << >>
    /\ filters = << >>
    /\ order = << >>
    /\ last = NoCall

\* ShowList.add_filter(match, shows)
AddFilter ==
    \E match \in Keys, fshows \in SUBSET Range(shows), traced \in BOOLEAN :
        /\ Untraced
        /\ Room(match)
        /\ Store(match, NewFilter(match, fshows))
        /\ last' = Trace(traced, [op |-> "add_filter", match |-> match,
                                  entry |-> NewFilter(match, fshows),
                                  before |-> filters, err |-> "ok"])
        /\ UNCHANGED <<objs, shows, disk>>

\* ShowList.add_show(name, abbrev): the Show is stored before add_filter runs,
\* and Filter.__init__ raises TypeError for the default abbrev None
AddShowOf(abbrevs) ==
    \E name \in Names, abbrev \in abbrevs, traced \in BOOLEAN :
        /\ Untraced
        /\ Len(objs) < MaxShowObjs
        /\ objs' = Append(objs, NewShow(name))
        /\ shows' = (name :> (Len(objs) + 1)) @@ shows
        /\ IF abbrev = None
           THEN /\ UNCHANGED <<filters, order>>
                /\ last' = Trace(traced, [op |-> "add_show", match |-> abbrev,
                                          before |-> filters, err |-> "TypeError"])
           ELSE /\ Room(abbrev)
                /\ Store(abbrev, NewFilter(abbrev, {Len(objs) + 1}))
                /\ last' = Trace(traced, [op |-> "add_show", match |-> abbrev,
                                          entry |-> NewFilter(abbrev, {Len(objs) + 1}),
                                          before |-> filters, err |-> "ok"])
        /\ UNCHANGED disk

AddShow == AddShowOf(Keys \cup {None})

\* ShowList.add_group(match, filter_string)
AddGroup ==
    \E match \in Keys, filter_string \in GroupStrings, traced \in BOOLEAN :
        /\ Untraced
        /\ Room(match)
        /\ Store(match, NewGroup(match, filter_string))
        /\ last' = Trace(traced, [op |-> "add_group", match |-> match,
                                  entry |-> NewGroup(match, filter_string),
                                  before |-> filters, err |-> "ok"])
        /\ UNCHANGED <<objs, shows, disk>>

\* ShowList.filter(filter_string)
FilterOf(strings) ==
    \E filter_string \in strings, traced \in BOOLEAN :
        LET r == FilterResult(objs, filter_string)
        IN /\ Untraced
           /\ objs' = r.objs
           /\ last' = Trace(traced, [op |-> "filter",
                                     filter_string |-> filter_string,
                                     before |-> objs, log |-> r.log,
                                     err |-> r.err])
           /\ UNCHANGED <<shows, filters, order, disk>>

Filter == FilterOf(FilterStrings)

\* the calls of Show.episodes() for the Show objects js leave the scan count
\* within the model's bound
ScanRoom(js) ==
    \A j \in js : objs[j].eplist = << >> => objs[j].scans < MaxScans

\* Show.name_in_colour() of any Show object: it calls self.episodes()
NameInColour ==
    \E j \in DOMAIN objs, traced \in BOOLEAN :
        /\ Untraced
        /\ ScanRoom({j})
        /\ objs' = [objs EXCEPT ![j] = ShowEpisodes(@)]
        /\ last' = Trace(traced, [op |-> "name_in_colour", show |-> j,
                                  before |-> objs, ret |-> objs'[j].eplist])
        /\ UNCHANGED <<shows, filters, order, disk>>

\* the Show objects shortcuts() describes: those of every Filter
Described ==
    UNION {filters[k].shows : k \in {x \in DOMAIN filters : filters[x].kind = "Filter"}}

\* ShowList.shortcuts(): name_in_colour() of every Show of every Filter
Shortcuts ==
    \E traced \in BOOLEAN :
        /\ Untraced
        /\ ScanRoom(Described)
        /\ objs' = [j \in DOMAIN objs |->
                        IF j \in Described THEN ShowEpisodes(objs[j]) ELSE objs[j]]
        /\ last' = Trace(traced, [op |-> "shortcuts", before |-> objs])
        /\ UNCHANGED <<shows, filters, order, disk>>

\* seq[0:count] for count >= 0
Slice(seq, count) ==
    SubSeq(seq, 1, IF count < Len(seq) THEN count ELSE Len(seq))

\* the orders random.shuffle can leave n items in: position i holds item p[i]
Shuffles(n) == Permutations(1..n)

\* the orders self.shows.values() can iterate in
ShowOrders ==
    {so \in [1..Cardinality(DOMAIN shows) -> DOMAIN shows] :
        \A i, j \in DOMAIN so : so[i] = so[j] => i = j}

\* a pool that takes the episodes of every show, enabled or not
RECURSIVE Pooled_All(_, _, _)
Pooled_All(os, so, i) ==
    IF i > Len(so) THEN << >>
    ELSE os[shows[so[i]]].eplist \o Pooled_All(os, so, i + 1)

\* all_matching_episodes after the loop over the shows iterated in order so,
\* the Show objects being os once their episodes() ran
RECURSIVE Pooled(_, _, _)
Pooled(os, so, i) ==
    IF i > Len(so) THEN << >>
    ELSE (IF os[shows[so[i]]].enabled THEN os[shows[so[i]]].eplist ELSE << >>)
            \o Pooled(os, so, i + 1)

\* the registered Show objects that are enabled
EnabledShows == {j \in Range(shows) : objs[j].enabled}

\* a random_episodes that shuffles the list of an enabled Show itself
RandomEpisodes_InPlace ==
    \E count \in Counts, so \in ShowOrders, traced \in BOOLEAN :
        LET os == [j \in DOMAIN objs |->
                      IF j \in EnabledShows THEN ShowEpisodes(objs[j]) ELSE objs[j]]
            pool == Pooled(os, so, 1)
        IN \E p \in Shuffles(Len(pool)), j \in EnabledShows :
            \E q \in Shuffles(Len(os[j].eplist)) :
                LET shuffled == [i \in 1..Len(pool) |-> pool[p[i]]]
                IN /\ Untraced
                   /\ ScanRoom(EnabledShows)
                   /\ objs' = [os EXCEPT ![j].eplist =
                                    [i \in 1..Len(os[j].eplist) |-> os[j].eplist[q[i]]]]
                   /\ last' = Trace(traced, [op |-> "random_episodes", count |-> count,
                                             before |-> objs, pool |-> pool,
                                             picks |-> Slice(p, count),
                                             ret |-> Slice(shuffled, count)])
                   /\ UNCHANGED <<shows, filters, order, disk>>

\* ShowList.random_episodes(count)
RandomEpisodes ==
    \E count \in Counts, so \in ShowOrders, traced \in BOOLEAN :
        LET os == [j \in DOMAIN objs |->
                      IF j \in EnabledShows THEN ShowEpisodes(objs[j]) ELSE objs[j]]
            pool == Pooled(os, so, 1)
        IN \E p \in Shuffles(Len(pool)) :
            LET shuffled == [i \in 1..Len(pool) |-> pool[p[i]]]
            IN /\ Untraced
               /\ ScanRoom(EnabledShows)
               /\ objs' = os
               /\ last' = Trace(traced, [op |-> "random_episodes", count |-> count,
                                         before |-> objs, pool |-> pool,
                                         picks |-> Slice(p, count),
                                         ret |-> Slice(shuffled, count)])
               /\ UNCHANGED <<shows, filters, order, disk>>

\* filter.match(token) and is_enabled_filter(token) for an entry of either class
MatchCall ==
    \E key \in MatchKeys, kind \in {"Filter", "Group"}, token \in MatchTokens :
        LET entry == IF kind = "Filter" THEN NewFilter(key, {})
                     ELSE NewGroup(key, sEmpty)
        IN /\ Untraced
           /\ last' = [op |-> "match", entry |-> entry, token |-> token,
                       matched |-> Match(entry, token),
                       enable |-> is_enabled_filter(token)]
           /\ UNCHANGED <<objs, shows, filters, order, disk>>

\* Show.__episodes_for_path(path) for a directory holding tree
Scan ==
    \E tree \in Trees :
        /\ Untraced
        /\ last' = [op |-> "scan", tree |-> tree,
                    ret |-> episodes_for_path(ScanRoot, tree)]
        /\ UNCHANGED <<objs, shows, filters, order, disk>>

\* playlist_contents(episodes)
PlaylistContents ==
    \E episodes \in SeqsUpTo(Paths, MaxPaths) :
        /\ Untraced
        /\ last' = [op |-> "playlist_contents", episodes |-> episodes,
                    ret |-> playlist_contents(episodes)]
        /\ UNCHANGED <<objs, shows, filters, order, disk>>

\* the emptyDir/fullDir fixture: show A has no media, show B has MaxEpisodes
Init ==
    /\ InitRegistry
    /\ disk = [n \in Names |-> Files(n, IF n = "A" THEN 0 ELSE MaxEpisodes)]

Next == AddShow \/ AddFilter \/ AddGroup \/ Filter

Spec == Init /\ [][Next]_vars

\* sampling: shows registered with their filters, toggled, listed and sampled,
\* over every content of the two directories
InitSample ==
    /\ InitRegistry
    /\ disk \in Disks

NextSample ==
    \/ AddShowOf(SampleKeys)
    \/ FilterOf(SampleStrings)
    \/ NameInColour
    \/ Shortcuts
    \/ RandomEpisodes

SpecSample == InitSample /\ [][NextSample]_vars

\* matching and polarity of single tokens
SpecMatch == Init /\ [][MatchCall]_vars

\* serialization of episode paths
SpecPlaylist == Init /\ [][PlaylistContents]_vars

\* scans of directory trees
SpecScan == Init /\ [][Scan]_vars

(***************************************************************************)
(* Properties.  A traced call is read from last: its arguments, the Show   *)
(* objects before it (last.before), and the state after it.                *)
(***************************************************************************)
sDashAll == sDash \o sAll

Registered == Range(shows)

\* the tokens of the traced filter() call
TracedTokens == Split(last.filter_string, " ")

\* the traced filter() call returned normally
Returned == last.op = "filter" /\ last.err = "ok"

\* the key of the entry token t resolves to in the registry, None if it is
\* unmatched or one of the pseudo-filters "all" and "-all"
Resolved(t) ==
    IF t \in {sAll, sDashAll} \/ FirstMatch(t) = 0 THEN None
    ELSE order[FirstMatch(t)]

\* C1: a token "all" enables every registered Show and a token "-all" disables
\* every one, and no Filter or Group is run for such a token at any depth,
\* whatever keys are registered.
C1_AllPseudoFilter ==
    last.op = "filter" =>
        /\ \A i \in DOMAIN last.log : last.log[i].token \notin {sAll, sDashAll}
        /\ last.filter_string \in {sAll, sDashAll} => last.log = << >>
        /\ (Returned /\ LastOf(TracedTokens) = sAll) =>
                \A j \in Registered : objs[j].enabled
        /\ (Returned /\ LastOf(TracedTokens) = sDashAll) =>
                \A j \in Registered : ~objs[j].enabled

\* filter("all") ran with a Filter keyed "a" registered, and enabled a Show
C1_Witness ==
    /\ last.op = "filter"
    /\ last.filter_string = sAll
    /\ sA \in DOMAIN filters
    /\ filters[sA].kind = "Filter"
    /\ \E j \in Registered : ~last.before[j].enabled /\ objs[j].enabled

\* the Shows the claim C2 speaks of: the registry's and the Filter's own
C2_Shows(k) == Registered \cup filters[k].shows

\* what C2 says of the Filter stored under key k
C2_OrderSensitive(k) ==
    /\ last.filter_string = Join(<<sDashAll, k>>, sSpace) =>
            \A j \in C2_Shows(k) : objs[j].enabled <=> j \in filters[k].shows
    /\ last.filter_string = Join(<<k, sDashAll>>, sSpace) =>
            \A j \in Registered : ~objs[j].enabled

\* C2 as stated: for any registered Filter whose key k token k resolves to,
\* filter("-all k") leaves exactly that Filter's Shows enabled and
\* filter("k -all") leaves every Show disabled.
C2_AsStated ==
    Returned =>
        \A k \in DOMAIN filters :
            (filters[k].kind = "Filter" /\ Resolved(k) = k) => C2_OrderSensitive(k)

\* C2 amended: the same for a key k that is not empty and does not begin
\* with "-", so that token k has the polarity "enable".
C2_OrderSensitiveEnablingKey ==
    Returned =>
        \A k \in DOMAIN filters :
            (/\ filters[k].kind = "Filter"
             /\ Resolved(k) = k
             /\ k # sEmpty
             /\ k[1] # "-") => C2_OrderSensitive(k)

\* filter("-all a") ran: the Filter "a" holds a Show, now enabled, and another
\* registered Show that was enabled is now disabled
C2_Witness ==
    /\ Returned
    /\ last.filter_string = Join(<<sDashAll, sA>>, sSpace)
    /\ sA \in DOMAIN filters
    /\ filters[sA].kind = "Filter"
    /\ Resolved(sA) = sA
    /\ \E j \in filters[sA].shows : objs[j].enabled
    /\ \E j \in Registered \ filters[sA].shows :
            last.before[j].enabled /\ ~objs[j].enabled

\* the tokens ts with every token that triggers a Group replaced by the
\* tokens of that Group's stored filter-string
RECURSIVE Inlined(_)
Inlined(ts) ==
    IF ts = << >> THEN << >>
    ELSE LET k == Resolved(Head(ts))
         IN (IF k # None /\ filters[k].kind = "Group"
             THEN Split(filters[k].filter_string, " ")
             ELSE <<Head(ts)>>) \o Inlined(Tail(ts))

\* C3: a call that returns leaves the Shows as the call of the filter-string
\* with its Group tokens inlined leaves them, whatever the polarity of the
\* triggering tokens; inlining once more (the nested Groups) changes nothing.
C3_GroupIsInlining ==
    Returned =>
        LET once == Inlined(TracedTokens)
            twice == Inlined(once)
        IN /\ FilterResult(last.before, Join(once, sSpace)).err = "ok"
           /\ FilterResult(last.before, Join(once, sSpace)).objs = objs
           /\ FilterResult(last.before, Join(twice, sSpace)).err = "ok"
           /\ FilterResult(last.before, Join(twice, sSpace)).objs = objs

\* a disabling token triggered a Group whose filter-string triggered another
\* Group, and the call changed a Show
C3_Witness ==
    /\ Returned
    /\ Len(TracedTokens) = 1
    /\ ~is_enabled_filter(TracedTokens[1])
    /\ Len(last.log) >= 2
    /\ last.log[1].entry.kind = "Group"
    /\ last.log[2].entry.kind = "Group"
    /\ last.log[2].depth = 2
    /\ objs # last.before

\* the token t matches no entry of the registry and is no pseudo-filter
Unmatched(t) ==
    /\ t \notin {sAll, sDashAll}
    /\ \A k \in DOMAIN filters : ~Match(filters[k], t)

\* the tokens of ts that are not unmatched
RECURSIVE Matched(_)
Matched(ts) ==
    IF ts = << >> THEN << >>
    ELSE (IF Unmatched(Head(ts)) THEN << >> ELSE <<Head(ts)>>) \o Matched(Tail(ts))

C7_AsStated ==
    last.op = "filter" =>
        \A i \in DOMAIN last.log :
            last.log[i].token = sEmpty => last.log[i].enable

\* C7 amended: the empty token has the polarity "disable", as a token that
\* begins with "-" has: an entry it triggers is applied with enable = false,
\* and a Filter it triggers leaves its Shows disabled.
C7_EmptyTokenDisables ==
    last.op = "filter" =>
        /\ \A i \in DOMAIN last.log :
                (last.log[i].token = sEmpty \/ Head(last.log[i].token) = "-")
                    => ~last.log[i].enable
        /\ (/\ last.filter_string = sEmpty
            /\ Resolved(sEmpty) # None
            /\ filters[Resolved(sEmpty)].kind = "Filter") =>
                \A j \in filters[Resolved(sEmpty)].shows : ~objs[j].enabled

\* filter("") ran and its empty token triggered a Filter that disabled a Show
C7_Witness ==
    /\ Returned
    /\ last.filter_string = sEmpty
    /\ Len(last.log) = 1
    /\ last.log[1].token = sEmpty
    /\ last.log[1].entry.kind = "Filter"
    /\ \E j \in last.log[1].entry.shows : last.before[j].enabled /\ ~objs[j].enabled

\* a Filter with key k matches t as the claim C8 describes
C8_PrefixMatch ==
    last.matched <=>
        \/ StartsWith(last.token, last.entry.key)
        \/ StartsWith(last.token, sDash \o last.entry.key)

\* C8 as stated: a Filter with key k matches t exactly when t starts with k or
\* with "-" followed by k, and the polarity of a matched t is disable exactly
\* when t starts with "-".
C8_AsStated ==
    (last.op = "match" /\ last.entry.kind = "Filter") =>
        /\ C8_PrefixMatch
        /\ last.matched => (~last.enable <=> StartsWith(last.token, sDash))

\* C8 amended: the same match, and the polarity of a matched t is disable
\* exactly when t starts with "-" or t is empty (which the empty key matches).
C8_PrefixMatchAndPolarity ==
    (last.op = "match" /\ last.entry.kind = "Filter") =>
        /\ C8_PrefixMatch
        /\ last.matched =>
            (~last.enable <=> (StartsWith(last.token, sDash) \/ last.token = sEmpty))
        /\ last.token = sEmpty => (last.matched <=> last.entry.key = sEmpty)

\* the Filter "ff" was matched against "-ffx": matched, polarity disable
C8_Witness ==
    /\ last.op = "match"
    /\ last.entry.kind = "Filter"
    /\ last.entry.key = sFF
    /\ last.token = sDash \o sFF \o sX
    /\ last.matched
    /\ ~last.enable

\* the traced call registered an entry
Registration == last.op \in {"add_show", "add_filter", "add_group"}

\* no key occurs twice in the iteration order, which lists the stored keys
OneEntryPerKey ==
    /\ \A i, j \in DOMAIN order : order[i] = order[j] => i = j
    /\ Range(order) = DOMAIN filters

\* C9: registering under a key already used raises nothing and replaces the
\* entry; the mapping holds one entry per key, the other keys keep theirs, and
\* filter() runs for that key the entry registered last.
C9_LastRegistrationWins ==
    /\ OneEntryPerKey
    /\ (Registration /\ last.match \in DOMAIN last.before) =>
        /\ last.err = "ok"
        /\ filters[last.match] = last.entry
        /\ DOMAIN filters = DOMAIN last.before
        /\ \A k \in DOMAIN filters \ {last.match} : filters[k] = last.before[k]
        /\ \A t \in Tokens :
            LET log == FilterResult(objs, t).log
            IN \A i \in DOMAIN log :
                log[i].entry.key = last.match => log[i].entry = last.entry

\* add_group replaced the Filter stored under its key
C9_Witness ==
    /\ last.op = "add_group"
    /\ last.match \in DOMAIN last.before
    /\ last.before[last.match].kind = "Filter"
    /\ last.before[last.match].shows # {}
    /\ filters[last.match].kind = "Group"
    /\ Len(order) = 2

\* the part of path after its last "/" (the whole path when it has none)
Basename(path) ==
    LET slashes == {i \in DOMAIN path : path[i] = "/"}
        from == IF slashes = {} THEN 0
                ELSE CHOOSE i \in slashes : \A j \in slashes : j <= i
    IN SubSeq(path, from + 1, Len(path))

\* the lines of the paths from the i-th on, a newline between two entries
RECURSIVE EntriesFrom(_, _)
EntriesFrom(paths, i) ==
    IF i > Len(paths) THEN << >>
    ELSE sEXTINFO \o Basename(paths[i]) \o sNewline \o paths[i]
            \o (IF i < Len(paths) THEN sNewline ELSE << >>)
            \o EntriesFrom(paths, i + 1)

\* C10: playlist_contents returns "#EXTM3U", a newline, and for each path in
\* input order "#EXTINFO:0,<basename>", a newline and the path, the entries
\* joined by single newlines with nothing after the last path.
C10_PlaylistContents ==
    last.op = "playlist_contents" =>
        /\ last.ret = sEXTM3U \o sNewline \o EntriesFrom(last.episodes, 1)
        /\ last.episodes = << >> => last.ret = sEXTM3U \o sNewline

\* two paths were serialized, the first with a directory part
C10_Witness ==
    /\ last.op = "playlist_contents"
    /\ Len(last.episodes) = 2
    /\ last.episodes[1] = <<"e", "/", "e">>
    /\ last.episodes[2] = <<"e">>
    /\ Len(last.ret) = Len(sEXTM3U) + 1 + (Len(sEXTINFO) + 1 + 1 + 3) + 1
                        + (Len(sEXTINFO) + 1 + 1 + 1)

\* the registered Shows enabled when the traced call was made
WereEnabled == {j \in Registered : last.before[j].enabled}

\* the episodes of the Show object j: what its directory holds
EpisodesOf(j) == {disk[objs[j].name][i] : i \in DOMAIN disk[objs[j].name]}

\* the number of episodes of the Show objects js
RECURSIVE PoolSize(_)
PoolSize(js) ==
    IF js = {} THEN 0
    ELSE LET j == CHOOSE x \in js : TRUE
         IN Len(disk[objs[j].name]) + PoolSize(js \ {j})

\* C4: random_episodes(count) returns min(count, P) entries, P the number of
\* episodes of the enabled Shows; each entry is an episode of an enabled Show
\* and of no disabled one, and no position of the pool is returned twice.
C4_RandomEpisodes ==
    last.op = "random_episodes" =>
        LET P == PoolSize(WereEnabled)
        IN /\ Len(last.pool) = P
           /\ Len(last.ret) = IF last.count < P THEN last.count ELSE P
           /\ Len(last.picks) = Len(last.ret)
           /\ \A i \in DOMAIN last.ret :
                /\ last.picks[i] \in DOMAIN last.pool
                /\ last.ret[i] = last.pool[last.picks[i]]
                /\ \E j \in WereEnabled : last.ret[i] \in EpisodesOf(j)
                /\ \A j \in Registered \ WereEnabled : last.ret[i] \notin EpisodesOf(j)
           /\ \A i, j \in DOMAIN last.picks :
                last.picks[i] = last.picks[j] => i = j

\* one episode was drawn from a pool of two, a disabled Show holding others
C4_Witness ==
    /\ last.op = "random_episodes"
    /\ last.count = 1
    /\ Len(last.pool) = 2
    /\ Len(last.ret) = 1
    /\ \E j \in Registered \ WereEnabled : EpisodesOf(j) # {}

\* C5 as stated: the Scanner is invoked for a Show on its first access only,
\* whatever the first scan returned.
C5_AsStated == \A j \in DOMAIN objs : objs[j].scans <= 1

\* the paths of the regular files at any depth below path
RECURSIVE RegularFiles(_, _)
RegularFiles(path, entries) ==
    UNION {IF entries[i].kind = "file" THEN {PathJoin(path, entries[i].name)}
           ELSE IF entries[i].kind = "dir"
           THEN RegularFiles(PathJoin(path, entries[i].name), entries[i].kids)
           ELSE {} : i \in DOMAIN entries}

\* the path p ends with one of the six extensions
EndsWithExtension(p) ==
    \E tok \in ExtTokens :
        Len(p) >= Len(tok) /\ SubSeq(p, Len(p) - Len(tok) + 1, Len(p)) = tok

\* the traced scan returned exactly the regular files that end with an
\* extension, each once
ScanIsExact ==
    LET files == RegularFiles(ScanRoot, last.tree)
    IN /\ \A i \in DOMAIN last.ret :
            last.ret[i] \in files /\ EndsWithExtension(last.ret[i])
       /\ \A p \in files :
            EndsWithExtension(p) =>
                Cardinality({i \in DOMAIN last.ret : last.ret[i] = p}) = 1

\* C11 as stated: for a tree of any depth the Scanner returns exactly the
\* regular files whose path ends with one of the six extensions, each once.
C11_AsStated == last.op = "scan" => ScanIsExact

\* no name in the entries, at any depth, holds a newline
RECURSIVE NoNewline(_)
NoNewline(entries) ==
    \A i \in DOMAIN entries :
        /\ \A j \in DOMAIN entries[i].name : entries[i].name[j] # "\n"
        /\ NoNewline(entries[i].kids)

\* C11 amended: the same for a tree in which no name holds a newline
\* character.
C11_ScanIsExactWithoutNewlines ==
    (last.op = "scan" /\ NoNewline(last.tree)) => ScanIsExact

\* the scan of a directory holding "xavi" and, two directories down, "mpeg"
\* returned both
C11_Witness ==
    /\ last.op = "scan"
    /\ NoNewline(last.tree)
    /\ Len(last.ret) = 2
    /\ \E i \in DOMAIN last.ret :
            last.ret[i] = PathJoin(ScanRoot, <<"x", "a", "v", "i">>)
    /\ \E i \in DOMAIN last.ret :
            last.ret[i] = PathJoin(PathJoin(PathJoin(ScanRoot, <<"a", "v", "i">>),
                                            <<"a", "v", "i">>), <<"m", "p", "e", "g">>)

\* the entry of the event e is the first one, in the iteration order, whose
\* match of e's token succeeds
RanTheFirst(e) ==
    \E i \in DOMAIN order :
        /\ order[i] = e.entry.key
        /\ filters[order[i]] = e.entry
        /\ Match(e.entry, e.token)
        /\ \A j \in 1..(i - 1) : ~Match(filters[order[j]], e.token)

\* C12: for every token other than "all" and "-all" filter() runs at most one
\* entry, the first in the mapping's iteration order whose match succeeds; an
\* entry after it is not run even if its match succeeds too.
C12_FirstMatchWins ==
    last.op = "filter" =>
        /\ \A i \in DOMAIN last.log : RanTheFirst(last.log[i])
        /\ \A p \in DOMAIN TracedTokens :
                Cardinality({i \in DOMAIN last.log :
                                last.log[i].depth = 1 /\ last.log[i].pos = p}) <= 1
        /\ \A i, j \in DOMAIN last.log :
                ~(/\ i < j
                  /\ last.log[i].depth = last.log[j].depth
                  /\ last.log[i].pos = last.log[j].pos
                  /\ \A h \in i..j : last.log[h].depth >= last.log[i].depth)
        /\ (/\ Len(TracedTokens) = 1
            /\ Len(last.log) = 1
            /\ last.log[1].entry.kind = "Filter") =>
                \A j \in DOMAIN objs :
                    objs[j] = IF j \in last.log[1].entry.shows
                              THEN [last.before[j] EXCEPT !.enabled = last.log[1].enable]
                              ELSE last.before[j]

\* two Filters matched the one token of a call; the first in the iteration
\* order was run and a Show of the second alone kept its flag
C12_Witness ==
    /\ Returned
    /\ Len(TracedTokens) = 1
    /\ Len(order) = 2
    /\ filters[order[1]].kind = "Filter"
    /\ filters[order[2]].kind = "Filter"
    /\ Match(filters[order[1]], TracedTokens[1])
    /\ Match(filters[order[2]], TracedTokens[1])
    /\ Len(last.log) = 1
    /\ last.log[1].entry = filters[order[1]]
    /\ \E j \in filters[order[2]].shows \ filters[order[1]].shows :
            objs[j].enabled # last.log[1].enable

\* the orders in which a mapping holding the registered keys can be iterated
IterationOrders ==
    {o \in [1..Len(order) -> DOMAIN filters] :
        \A i, j \in 1..Len(order) : o[i] = o[j] => i = j}

\* the outcome of filter() on the tokens toks when the mapping is iterated in
\* the order o: the Show objects and the error raised
RECURSIVE ResultUnder(_, _, _, _)
ResultUnder(o, st, toks, depth) ==
    IF depth > MaxDepth THEN [st EXCEPT !.err = "RuntimeError"]
    ELSE IF st.err # "ok" \/ toks = << >> THEN st
    ELSE LET t == Head(toks)
             hits == {i \in DOMAIN o : Match(filters[o[i]], t)}
             first == filters[o[CHOOSE i \in hits : \A j \in hits : i <= j]]
             next ==
                IF all_pseudo_filter(t)
                THEN [st EXCEPT !.objs = SetAll(st.objs, is_enabled_filter(t))]
                ELSE IF hits = {} THEN st
                ELSE IF first.kind = "Filter"
                THEN [st EXCEPT !.objs = FilterRun(first, st.objs, is_enabled_filter(t))]
                ELSE ResultUnder(o, st, Split(first.filter_string, " "), depth + 1)
         IN ResultUnder(o, next, Tail(toks), depth)

\* C13 as stated: the enabled flags after filter() do not depend on the order
\* in which the filter/group mapping is iterated: whatever that order, the
\* call on the same registry and filter-string leaves the flags it left.
C13_AsStated ==
    Returned =>
        \A o \in IterationOrders :
            LET r == ResultUnder(o, [objs |-> last.before, err |-> "ok"],
                                 TracedTokens, 1)
            IN r.err = "ok" /\ r.objs = objs

\* the flag the entries run in the log leave on Show j: the polarity of the
\* last Filter run that references j, the flag j had when none does
FlagLeft(log, before, j) ==
    LET runs == {i \in DOMAIN log : j \in log[i].entry.shows}
    IN IF runs = {} THEN before[j].enabled
       ELSE log[CHOOSE i \in runs : \A h \in runs : i >= h].enable

\* C14: a token resolved to a Filter sets the flag of every Show the Filter
\* references to the token's polarity and leaves the flag of every other Show;
\* a filter() call changes nothing but enabled flags: the registered Shows,
\* the mapping and its order, the directories and every Show's name, episode
\* cache and number of scans stay as they were.
C14_FilterFrame ==
    [][last'.op = "filter" =>
        /\ shows' = shows /\ filters' = filters /\ order' = order /\ disk' = disk
        /\ DOMAIN objs' = DOMAIN objs
        /\ last'.before = objs
        /\ \A j \in DOMAIN objs :
                [objs'[j] EXCEPT !.enabled = objs[j].enabled] = objs[j]
        /\ (/\ \A i \in DOMAIN last'.log : last'.log[i].entry.kind = "Filter"
            /\ \A i \in DOMAIN TracedTokens' :
                    TracedTokens'[i] \notin {sAll, sDashAll}) =>
                \A j \in DOMAIN objs :
                    objs'[j].enabled = FlagLeft(last'.log, objs, j)
    ]_vars

\* a token disabled the Show of its Filter, whose episodes were cached, and
\* another registered Show stayed enabled
C14_Witness ==
    /\ Returned
    /\ Len(TracedTokens) = 1
    /\ Len(last.log) = 1
    /\ last.log[1].entry.kind = "Filter"
    /\ ~last.log[1].enable
    /\ \E j \in last.log[1].entry.shows :
            /\ last.before[j].enabled /\ ~objs[j].enabled
            /\ objs[j].eplist # << >> /\ objs[j].scans = 1
    /\ \E k \in Registered \ last.log[1].entry.shows :
            last.before[k].enabled /\ objs[k].enabled

\* the keys of the registered Groups
GroupKeys == {k \in DOMAIN filters : filters[k].kind = "Group"}

\* the Groups the tokens ts trigger
Triggered(ts) == {k \in GroupKeys : \E i \in DOMAIN ts : Resolved(ts[i]) = k}

\* the Groups the stored filter-string of Group k triggers
TriggeredBy(k) == Triggered(Split(filters[k].filter_string, " "))

\* the Groups of S and those they trigger through at most n further Groups
RECURSIVE Closure(_, _)
Closure(S, n) ==
    IF n = 0 THEN S
    ELSE Closure(S \cup UNION {TriggeredBy(k) : k \in S}, n - 1)

\* Group k triggers itself, directly or through a chain of other Groups
Cyclic(k) == k \in Closure(TriggeredBy(k), Cardinality(GroupKeys))

\* the Groups the traced call triggers, directly or through other Groups
CalledGroups == Closure(Triggered(TracedTokens), Cardinality(GroupKeys))

\* C15: a filter() call that triggers a Group whose filter-string triggers
\* that Group again, directly or through other Groups, does not return
\* normally: it re-enters filter() through a Group at every depth, as deep as
\* the interpreter lets it, and ends with the recursion error.
C15_CyclicGroupRecurses ==
    (last.op = "filter" /\ \E k \in CalledGroups : Cyclic(k)) =>
        /\ last.err = "RuntimeError"
        /\ \A d \in 1..MaxDepth :
                \E i \in DOMAIN last.log :
                    last.log[i].depth = d /\ last.log[i].entry.kind = "Group"
        /\ last.log[Len(last.log)].depth = MaxDepth

\* a call triggered a Group that triggers itself through another Group
C15_Witness ==
    /\ last.op = "filter"
    /\ last.err = "RuntimeError"
    /\ Cardinality(GroupKeys) = 2
    /\ \E k \in CalledGroups :
            /\ Cyclic(k)
            /\ k \notin TriggeredBy(k)
            /\ \E i, j \in DOMAIN last.log :
                    /\ last.log[i].entry.key = k
                    /\ last.log[j].entry.key # k
                    /\ last.log[j].entry.kind = "Group"

\* C16: when no Group triggers itself, directly or through other Groups,
\* filter() returns: every token that resolves to an entry has had its entry
\* run, and calls are nested no deeper than the number of Groups.
C16_AcyclicTerminates ==
    (last.op = "filter" /\ \A k \in GroupKeys : ~Cyclic(k)) =>
        /\ last.err = "ok"
        /\ \A p \in DOMAIN TracedTokens :
                Resolved(TracedTokens[p]) # None =>
                    \E i \in DOMAIN last.log :
                        /\ last.log[i].depth = 1 /\ last.log[i].pos = p
                        /\ last.log[i].token = TracedTokens[p]
        /\ \A i \in DOMAIN last.log :
                /\ last.log[i].depth - 1 <= Cardinality(GroupKeys)
                /\ last.log[i].entry.kind = "Group" =>
                        last.log[i].depth <= Cardinality(GroupKeys)

\* a call returned after a Group triggered the other Group, two calls deep
C16_Witness ==
    /\ Returned
    /\ Cardinality(GroupKeys) = 2
    /\ \A k \in GroupKeys : ~Cyclic(k)
    /\ \E i \in DOMAIN last.log :
            last.log[i].depth = 2 /\ last.log[i].entry.kind = "Group"

\* C17 as stated: every Show a Filter of the mapping references is the Show
\* the registry holds under its name, so that a flag set through any Filter is
\* the flag random_episodes() reads.
C17_AsStated ==
    \A k \in DOMAIN filters :
        filters[k].kind = "Filter" =>
            \A j \in filters[k].shows :
                /\ objs[j].name \in DOMAIN shows
                /\ shows[objs[j].name] = j

\* the traced match is of the token "-" followed by the key of a Group whose
\* key does not begin with "-"
DashedGroupKey ==
    /\ last.op = "match"
    /\ last.entry.kind = "Group"
    /\ ~StartsWith(last.entry.key, sDash)
    /\ last.token = sDash \o last.entry.key

\* C18 as stated: for a Group whose key k does not begin with "-", the token
\* "-" followed by k does not trigger the Group.
C18_AsStated == DashedGroupKey => ~last.matched

\* C18 amended: a Group matches a token only if the token starts with its key;
\* for a key k that is not empty and does not begin with "-", the token "-"
\* followed by k does not match the Group, while a Filter with the key k
\* matches it.
C18_GroupNeedsItsKeyFirst ==
    (last.op = "match" /\ last.entry.kind = "Group") =>
        /\ last.matched =>
                /\ Len(last.token) >= Len(last.entry.key)
                /\ SubSeq(last.token, 1, Len(last.entry.key)) = last.entry.key
        /\ (DashedGroupKey /\ last.entry.key # sEmpty) =>
                /\ ~last.matched
                /\ FilterMatch(NewFilter(last.entry.key, {}), last.token)

\* the Group "ff" was matched against "-ff": not matched
C18_Witness ==
    /\ DashedGroupKey
    /\ last.entry.key = sFF
    /\ last.token = sDash \o sFF
    /\ ~last.matched

\* C19 as stated: after a random_episodes() call every Show's enabled flag
\* and cached episode list are what they were before the call.
C19_AsStated ==
    last.op = "random_episodes" =>
        \A j \in DOMAIN objs :
            /\ objs[j].enabled = last.before[j].enabled
            /\ objs[j].eplist = last.before[j].eplist

\* C19 amended: a random_episodes() call changes no enabled flag, no Show's
\* name and nothing of the registry's mappings; a Show whose cached list was
\* not empty keeps it, contents and order; a Show whose cached list was empty
\* gets the list its directory holds if it is registered and enabled, and
\* keeps the empty list if not; a call made next pools the same episodes.
C19_RandomEpisodesFrame ==
    [][last'.op = "random_episodes" =>
        /\ shows' = shows /\ filters' = filters /\ order' = order /\ disk' = disk
        /\ DOMAIN objs' = DOMAIN objs
        /\ last'.before = objs
        /\ \A j \in DOMAIN objs :
            /\ objs'[j].enabled = objs[j].enabled
            /\ objs'[j].name = objs[j].name
            /\ objs[j].eplist # << >> => objs'[j].eplist = objs[j].eplist
            /\ objs[j].eplist = << >> =>
                    objs'[j].eplist = IF j \in Range(shows) /\ objs[j].enabled
                                      THEN disk[objs[j].name] ELSE << >>
        /\ \A so \in ShowOrders :
            /\ Len(Pooled(objs', so, 1)) = Len(last'.pool)
            /\ Range(Pooled(objs', so, 1)) = Range(last'.pool)
    ]_vars

\* two episodes of a Show whose list was cached were returned in the other
\* order, and the cached list stayed as it was
C19_Witness ==
    /\ last.op = "random_episodes"
    /\ Len(last.ret) = 2
    /\ \E j \in WereEnabled :
            /\ Len(last.before[j].eplist) = 2
            /\ objs[j].eplist = last.before[j].eplist
            /\ last.ret = <<objs[j].eplist[2], objs[j].eplist[1]>>

====
